---- MODULE Spec2Model ----
(***************************************************************************)
(* Model of trio/_core/_parking_lot.py: ParkingLot, a FIFO wait queue      *)
(* keyed by a module-wide counter, with cancellation (the abort closure    *)
(* of park) and requeueing (repark).                                       *)
(*                                                                         *)
(* The scheduler is the environment: it runs tasks (which call park,       *)
(* unpark, repark), it may cancel a task that is suspended in park (it     *)
(* calls the abort closure), and it resumes rescheduled or aborted tasks.  *)
(***************************************************************************)
EXTENDS Integers, Sequences, FiniteSets, TLC

\* ---------------------------------------------------------------- bounds
MaxCounter == 5
MaxCount == 3

Tasks == {"A", "B", "C"}
Lots == {"Q1", "Q2"}
\* an object that is not a ParkingLot, as an argument of repark
NotALot == "NotALot"
\* the values of unpark's result= argument (the first is the default)
DefaultResult == "Value(None)"
Results == {DefaultResult, "Value(1)"}
\* the count= argument: ParkingLot.ALL or an integer
ALL == [all |-> TRUE, n |-> 0]
Counts == {ALL} \cup {[all |-> FALSE, n |-> k] : k \in (-1)..MaxCount}

VARIABLES
    counter,   \* the next value of the module-wide _counter
    parked,    \* parked[l]: the SortedDict l._parked, as its items in key order,
               \* each <<idx, the task whose ticket it is>>
    ticket,    \* ticket[t]: fields 1 and 2 of the ticket list held by the abort closure
               \* the scheduler keeps for t while t is suspended in park
    status,    \* status[t]: "running", "parked" (suspended in park), "scheduled", "aborted"
    resched,   \* resched[t]: reschedule calls unpark made for t during its current park call
    aborts,    \* aborts[t]: abort calls made for t during its current park call
    outcome,   \* outcome[t]: what t's park call will produce when t resumes
    arrival,   \* history: arrival[l], the tasks in l in the order they were deposited
    last       \* history: the last call, what it returned, raised and rescheduled

vars == <<counter, parked, ticket, status, resched, aborts, outcome, arrival, last>>

\* ------------------------------------------------------ SortedDict helpers
EmptyTable == <<>>

Keys(tbl) == {tbl[i][1] : i \in 1..Len(tbl)}

\* the item goes to the front of the table whatever its key: the table keeps
\* insertion order, newest first
PutFront(tbl, k, v) == <<<<k, v>>>> \o SelectSeq(tbl, LAMBDA e : e[1] # k)

\* d[k] = v: replaces the value of a key that is present, else inserts the
\* item at its place in key order
Put(tbl, k, v) ==
    IF k \in Keys(tbl)
    THEN [i \in 1..Len(tbl) |-> IF tbl[i][1] = k THEN <<k, v>> ELSE tbl[i]]
    ELSE LET lo == SelectSeq(tbl, LAMBDA e : e[1] < k)
             hi == SelectSeq(tbl, LAMBDA e : e[1] > k)
         IN lo \o <<<<k, v>>>> \o hi

\* del d[k]
Del(tbl, k) == SelectSeq(tbl, LAMBDA e : e[1] # k)

\* the tasks of a table in ascending key order
InOrder(tbl) == [i \in 1..Len(tbl) |-> tbl[i][2]]

Min(a, b) == IF a <= b THEN a ELSE b

\* ------------------------------------------------------------ ParkingLot
NoTicket == [idx |-> -1, lot |-> "None"]

\* __len__: len(self._parked)
LotLen(tbls, l) == Len(tbls[l])

\* __bool__: bool(self._parked)
LotBool(tbls, l) == tbls[l] # <<>>

\* statistics().tasks_waiting
TasksWaiting(tbls, l) == Len(tbls[l])

\* The mutable state the methods work on: h.parked, h.counter, h.ticket.
Heap == [parked |-> parked, counter |-> counter, ticket |-> ticket]

\* the ticket keeps the sequence number it has: no fresh number on re-deposit
DepositKeepIdx(h, l, t) ==
    LET idx == IF h.ticket[t].idx >= 0 THEN h.ticket[t].idx ELSE h.counter
    IN [parked  |-> [h.parked EXCEPT ![l] = Put(@, idx, t)],
        counter |-> h.counter + 1,
        ticket  |-> [h.ticket EXCEPT ![t] = [idx |-> idx, lot |-> l]]]

\* the counter is read but not advanced
DepositNoAdvance(h, l, t) ==
    [parked  |-> [h.parked EXCEPT ![l] = Put(@, h.counter, t)],
     counter |-> h.counter,
     ticket  |-> [h.ticket EXCEPT ![t] = [idx |-> h.counter, lot |-> l]]]

\* each lot numbers its own tickets: one more than its largest key
DepositPerLot(h, l, t) ==
    LET tbl == h.parked[l]
        idx == IF tbl = <<>> THEN 0 ELSE tbl[Len(tbl)][1] + 1
    IN [parked  |-> [h.parked EXCEPT ![l] = Put(@, idx, t)],
        counter |-> h.counter + 1,
        ticket  |-> [h.ticket EXCEPT ![t] = [idx |-> idx, lot |-> l]]]

\* ticket[2] is set by the first deposit only: a moved ticket keeps naming
\* the lot it was parked in
DepositKeepLot(h, l, t) ==
    [parked  |-> [h.parked EXCEPT ![l] = Put(@, h.counter, t)],
     counter |-> h.counter + 1,
     ticket  |-> [h.ticket EXCEPT ![t] =
                    [idx |-> h.counter,
                     lot |-> IF h.ticket[t].lot \in Lots THEN h.ticket[t].lot ELSE l]]]

\* one table shared by every lot (a default built once, not per instance):
\* the item shows in each lot's table
DepositShared(h, l, t) ==
    [parked  |-> [a \in DOMAIN h.parked |-> Put(h.parked[a], h.counter, t)],
     counter |-> h.counter + 1,
     ticket  |-> [h.ticket EXCEPT ![t] = [idx |-> h.counter, lot |-> l]]]

\* ticket[1] is set by the first deposit only: a moved ticket keeps the
\* sequence number it was parked with, the table has it under the fresh one
DepositKeepSeq(h, l, t) ==
    [parked  |-> [h.parked EXCEPT ![l] = Put(@, h.counter, t)],
     counter |-> h.counter + 1,
     ticket  |-> [h.ticket EXCEPT ![t] =
                    [idx |-> IF h.ticket[t].idx >= 0 THEN h.ticket[t].idx ELSE h.counter,
                     lot |-> l]]]

\* _deposit_ticket(self = l, ticket of task t): idx = next(_counter);
\* ticket[1] = idx; ticket[2] = self; self._parked[idx] = ticket
DepositTicket(h, l, t) ==
    [parked  |-> [h.parked EXCEPT ![l] = Put(@, h.counter, t)],
     counter |-> h.counter + 1,
     ticket  |-> [h.ticket EXCEPT ![t] = [idx |-> h.counter, lot |-> l]]]

\* popitem(last=True): the item with the largest key
PopItemLast(tbl) ==
    [key |-> tbl[Len(tbl)][1], task |-> tbl[Len(tbl)][2], rest |-> SubSeq(tbl, 1, Len(tbl) - 1)]

\* peekitem(0): the first item is returned and stays in the table
PopItemPeek(tbl) == [key |-> tbl[1][1], task |-> tbl[1][2], rest |-> tbl]

\* self._parked.popitem(last=False) on a table that is not empty: removes and
\* returns the item with the smallest key
PopItem(tbl) == [key |-> tbl[1][1], task |-> tbl[1][2], rest |-> Tail(tbl)]

\* count is ignored: every call pops everything
PopCountAll(count, n) == n

\* range(count), without the min()
PopCountNoMin(count, n) == IF count.all THEN n ELSE IF count.n < 0 THEN 0 ELSE count.n

\* range(min(abs(count), len)): the sign of count is dropped
PopCountAbs(count, n) ==
    IF count.all THEN n
    ELSE Min(IF count.n < 0 THEN 0 - count.n ELSE count.n, n)

\* _pop_several: the number of iterations, range(min(count, len(self._parked)))
\* with count = len(self._parked) for ALL; a negative range is empty
PopCount(count, n) ==
    IF count.all THEN n
    ELSE IF Min(count.n, n) < 0 THEN 0 ELSE Min(count.n, n)

\* _pop_several consumed to the end with nothing in between (as unpark's list
\* comprehension does): the tasks of the popped tickets, what is left, and
\* the KeyError popitem raises on an empty SortedDict
RECURSIVE PopSeveral(_, _)
PopSeveral(tbl, m) ==
    IF m = 0 THEN [tasks |-> <<>>, rest |-> tbl, raised |-> "none"]
    ELSE IF tbl = <<>> THEN [tasks |-> <<>>, rest |-> tbl, raised |-> "KeyError"]
    ELSE LET it == PopItem(tbl)
             r  == PopSeveral(it.rest, m - 1)
         IN [tasks |-> <<it.task>> \o r.tasks, rest |-> r.rest, raised |-> r.raised]

\* the popped tickets are deposited in self instead of new_lot
RECURSIVE ReparkLoopSelf(_, _, _, _, _)
ReparkLoopSelf(h, l, new_lot, m, moved) ==
    IF m = 0 THEN [heap |-> h, moved |-> moved, raised |-> "none"]
    ELSE IF h.parked[l] = <<>> THEN [heap |-> h, moved |-> moved, raised |-> "KeyError"]
    ELSE LET it == [key |-> h.parked[l][1][1], task |-> h.parked[l][1][2],
                    rest |-> Tail(h.parked[l])]
             h1 == [h EXCEPT !.parked[l] = it.rest]
             h2 == [parked  |-> [h1.parked EXCEPT ![l] = Put(@, h1.counter, it.task)],
                    counter |-> h1.counter + 1,
                    ticket  |-> [h1.ticket EXCEPT ![it.task] = [idx |-> h1.counter, lot |-> l]]]
         IN ReparkLoopSelf(h2, l, new_lot, m - 1, Append(moved, it.task))

\* the popped tickets are deposited nowhere
RECURSIVE ReparkLoopDrop(_, _, _, _, _)
ReparkLoopDrop(h, l, new_lot, m, moved) ==
    IF m = 0 THEN [heap |-> h, moved |-> moved, raised |-> "none"]
    ELSE IF h.parked[l] = <<>> THEN [heap |-> h, moved |-> moved, raised |-> "KeyError"]
    ELSE LET it == [key |-> h.parked[l][1][1], task |-> h.parked[l][1][2],
                    rest |-> Tail(h.parked[l])]
         IN ReparkLoopDrop([h EXCEPT !.parked[l] = it.rest], l, new_lot, m - 1,
                           Append(moved, it.task))

\* a repark onto the lot itself is short-cut: nothing is popped
RECURSIVE ReparkLoopSkipSelf(_, _, _, _, _)
ReparkLoopSkipSelf(h, l, new_lot, m, moved) ==
    IF m = 0 \/ new_lot = l THEN [heap |-> h, moved |-> moved, raised |-> "none"]
    ELSE IF h.parked[l] = <<>> THEN [heap |-> h, moved |-> moved, raised |-> "KeyError"]
    ELSE LET it == [key |-> h.parked[l][1][1], task |-> h.parked[l][1][2],
                    rest |-> Tail(h.parked[l])]
             h1 == [h EXCEPT !.parked[l] = it.rest]
             h2 == [parked  |-> [h1.parked EXCEPT ![new_lot] = Put(@, h1.counter, it.task)],
                    counter |-> h1.counter + 1,
                    ticket  |-> [h1.ticket EXCEPT ![it.task] =
                                   [idx |-> h1.counter, lot |-> new_lot]]]
         IN ReparkLoopSkipSelf(h2, l, new_lot, m - 1, Append(moved, it.task))

\* repark's loop: each ticket _pop_several yields is deposited in new_lot
\* before the next one is popped; the iteration count m was fixed by range()
\* when the generator started.  moved is the tasks in the order handled.
RECURSIVE ReparkLoop(_, _, _, _, _)
ReparkLoop(h, l, new_lot, m, moved) ==
    IF m = 0 THEN [heap |-> h, moved |-> moved, raised |-> "none"]
    ELSE IF h.parked[l] = <<>> THEN [heap |-> h, moved |-> moved, raised |-> "KeyError"]
    ELSE LET it == PopItem(h.parked[l])
             h1 == [h EXCEPT !.parked[l] = it.rest]
         IN ReparkLoop(DepositTicket(h1, new_lot, it.task), l, new_lot, m - 1,
                       Append(moved, it.task))

\* no check of new_lot
IsParkingLotAny(x) == TRUE

\* isinstance(new_lot, ParkingLot)
IsParkingLot(x) == x \in Lots

\* the abort closure removes the lot's first item instead of its own
AbortDeleteFirst(tbls, tk) == [tbls EXCEPT ![tk.lot] = Tail(@)]

\* the abort closure removes nothing
AbortNoDelete(tbls, tk) == tbls

\* the abort closure's "del lot._parked[idx]" for the ticket tk
AbortDelete(tbls, tk) == [tbls EXCEPT ![tk.lot] = Del(@, tk.idx)]

\* every task is rescheduled with the default result, whatever was passed
RescheduleCallsDefault(tasks, result) ==
    [i \in 1..Len(tasks) |-> <<tasks[i], DefaultResult>>]

\* unpark's second loop: the calls _core.reschedule(task, result), one per
\* task of the list, in list order
RescheduleCalls(tasks, result) == [i \in 1..Len(tasks) |-> <<tasks[i], result>>]

\* what the scheduler holds for task t after the reschedule calls: the
\* result of the last call that named t
Delivered(calls, t) ==
    calls[CHOOSE i \in 1..Len(calls) :
            calls[i][1] = t /\ \A j \in (i + 1)..Len(calls) : calls[j][1] # t][2]

\* ----------------------------------------------------- history helpers
\* the last call: which method on which lot with which new_lot and count
\* (and, set by unpark, with which result), what it
\* returned (the task list of unpark, the tasks of the tickets repark moved,
\* the parking task, the aborted task and the abort closure's return value),
\* what it raised, and the reschedule calls it made
Call(op, l, target, count, ret, raised, calls) ==
    [op |-> op, lot |-> l, target |-> target, count |-> count, ret |-> ret,
     raised |-> raised, calls |-> calls, result |-> "None"]

SeqSet(s) == {s[i] : i \in 1..Len(s)}

\* s without the elements of the set X
Without(s, X) == SelectSeq(s, LAMBDA x : x \notin X)

\* how often x occurs in s
Count(s, x) == Cardinality({i \in 1..Len(s) : s[i] = x})

\* ------------------------------------------------------------- actions
Init ==
    /\ counter = 0
    /\ parked = [l \in Lots |-> EmptyTable]
    /\ ticket = [t \in Tasks |-> NoTicket]
    /\ status = [t \in Tasks |-> "running"]
    /\ resched = [t \in Tasks |-> 0]
    /\ aborts = [t \in Tasks |-> 0]
    /\ outcome = [t \in Tasks |-> "None"]
    /\ arrival = [l \in Lots |-> <<>>]
    /\ last = Call("init", "None", "None", ALL, <<>>, "none", <<>>)

\* await l.park() by the running task t, up to its suspension in
\* yield_indefinitely(abort)
Park(t, l) ==
    /\ status[t] = "running"
    /\ counter < MaxCounter
    /\ \E h \in {DepositTicket([Heap EXCEPT !.ticket[t] = NoTicket], l, t)} :
          /\ parked' = h.parked
          /\ counter' = h.counter
          /\ ticket' = h.ticket
    /\ status' = [status EXCEPT ![t] = "parked"]
    /\ arrival' = [arrival EXCEPT ![l] = Append(@, t)]
    /\ last' = Call("park", l, "None", ALL, <<t>>, "none", <<>>)
    /\ UNCHANGED <<resched, aborts, outcome>>

\* the scheduler cancels t while it is suspended in park: abort(_) runs
Abort(t) ==
    /\ status[t] = "parked"
    /\ IF ticket[t].lot \in Lots /\ ticket[t].idx \in Keys(parked[ticket[t].lot])
       THEN /\ parked' = AbortDelete(parked, ticket[t])
            /\ status' = [status EXCEPT ![t] = "aborted"]
            /\ outcome' = [outcome EXCEPT ![t] = "Cancelled"]
            /\ arrival' = [arrival EXCEPT ![ticket[t].lot] = Without(@, {t})]
            /\ ticket' = [ticket EXCEPT ![t] = NoTicket]
            /\ last' = Call("abort", ticket[t].lot, "None", ALL, <<t, "Abort.SUCCEEDED">>, "none", <<>>)
       ELSE /\ UNCHANGED <<parked, status, outcome, arrival, ticket>>
            /\ last' = Call("abort", ticket[t].lot, "None", ALL, <<t>>, "KeyError", <<>>)
    /\ aborts' = [aborts EXCEPT ![t] = @ + 1]
    /\ UNCHANGED <<counter, resched>>

\* l.unpark(count=count, result=result): the list comprehension pops, then
\* each popped task is rescheduled; an exception of the pops leaves before
\* any reschedule
Unpark(l, count, result) ==
    \E p \in {PopSeveral(parked[l], PopCount(count, LotLen(parked, l)))} :
    \E tasks \in {IF p.raised = "none" THEN p.tasks ELSE <<>>} :
    \E calls \in {RescheduleCalls(tasks, result)} :
    \E woken \in {{calls[i][1] : i \in 1..Len(calls)}} :
       /\ parked' = [parked EXCEPT ![l] = p.rest]
       /\ status' = [t \in Tasks |-> IF t \in woken THEN "scheduled" ELSE status[t]]
       /\ resched' = [t \in Tasks |->
                        resched[t] + Cardinality({i \in 1..Len(calls) : calls[i][1] = t})]
       /\ outcome' = [t \in Tasks |-> IF t \in woken THEN Delivered(calls, t)
                                                     ELSE outcome[t]]
       /\ ticket' = [t \in Tasks |-> IF t \in woken THEN NoTicket ELSE ticket[t]]
       /\ arrival' = [arrival EXCEPT ![l] = Without(@, SeqSet(p.tasks))]
       /\ last' = [Call("unpark", l, "None", count, tasks, p.raised, calls)
                     EXCEPT !.result = result]
       /\ UNCHANGED <<counter, aborts>>

\* l.repark(new_lot, count=count)
Repark(l, new_lot, count) ==
    IF ~IsParkingLot(new_lot)
    THEN /\ last' = Call("repark", l, new_lot, count, <<>>, "TypeError", <<>>)
         /\ UNCHANGED <<counter, parked, ticket, status, resched, aborts, outcome, arrival>>
    ELSE \E m \in {PopCount(count, LotLen(parked, l))} :
            /\ counter + m <= MaxCounter
            /\ \E r \in {ReparkLoop(Heap, l, new_lot, m, <<>>)} :
               /\ parked' = r.heap.parked
               /\ counter' = r.heap.counter
               /\ ticket' = r.heap.ticket
               /\ arrival' = [a \in Lots |->
                                LET kept == IF a = l THEN Without(arrival[a], SeqSet(r.moved))
                                                     ELSE arrival[a]
                                IN IF a = new_lot THEN kept \o r.moved ELSE kept]
               /\ last' = Call("repark", l, new_lot, count, r.moved, r.raised, <<>>)
               /\ UNCHANGED <<status, resched, aborts, outcome>>

\* the scheduler resumes t: park returns the result or raises Cancelled
Resume(t) ==
    /\ status[t] \in {"scheduled", "aborted"}
    /\ status' = [status EXCEPT ![t] = "running"]
    /\ outcome' = [outcome EXCEPT ![t] = "None"]
    /\ resched' = [resched EXCEPT ![t] = 0]
    /\ aborts' = [aborts EXCEPT ![t] = 0]
    /\ last' = Call("resume", "None", "None", ALL, <<t, outcome[t]>>, "none", <<>>)
    /\ UNCHANGED <<counter, parked, ticket, arrival>>

Next ==
    \/ \E t \in Tasks, l \in Lots : Park(t, l)
    \/ \E t \in Tasks : Abort(t)
    \/ \E l \in Lots, c \in Counts : Unpark(l, c, DefaultResult)
    \/ \E l \in Lots, x \in Lots \cup {NotALot}, c \in Counts : Repark(l, x, c)
    \/ \E t \in Tasks : Resume(t)

Spec == Init /\ [][Next]_vars

\* the program with unpark's result= argument drawn from Results, every count
\* for unpark, and repark called with a lot and with count ALL or 1
ReparkCounts == {ALL, [all |-> FALSE, n |-> 1]}

NextResults ==
    \/ \E t \in Tasks, l \in Lots : Park(t, l)
    \/ \E t \in Tasks : Abort(t)
    \/ \E l \in Lots, c \in Counts, r \in Results : Unpark(l, c, r)
    \/ \E l \in Lots, x \in Lots, c \in ReparkCounts : Repark(l, x, c)
    \/ \E t \in Tasks : Resume(t)

SpecResults == Init /\ [][NextResults]_vars

\* the program whose tasks park in Q1 only: a ticket in Q2 was moved there by
\* repark, a ticket in Q1 with a key above another's may have been moved back
NextParkQ1 ==
    \/ \E t \in Tasks : Park(t, "Q1")
    \/ \E t \in Tasks : Abort(t)
    \/ \E l \in Lots, c \in Counts : Unpark(l, c, DefaultResult)
    \/ \E l \in Lots, x \in Lots \cup {NotALot}, c \in Counts : Repark(l, x, c)
    \/ \E t \in Tasks : Resume(t)

SpecParkQ1 == Init /\ [][NextParkQ1]_vars

\* the program with unpark called with count ALL, 0, 1 or 2 and repark called
\* with a lot and with count ALL or 1
UnparkCounts == {ALL} \cup {[all |-> FALSE, n |-> k] : k \in 0..2}

NextFewCounts ==
    \/ \E t \in Tasks, l \in Lots : Park(t, l)
    \/ \E t \in Tasks : Abort(t)
    \/ \E l \in Lots, c \in UnparkCounts : Unpark(l, c, DefaultResult)
    \/ \E l \in Lots, x \in Lots, c \in ReparkCounts : Repark(l, x, c)
    \/ \E t \in Tasks : Resume(t)

SpecFewCounts == Init /\ [][NextFewCounts]_vars

\* ------------------------------------------------------------ properties
\* the sequence number under which task t is in the table
SeqNo(tbl, t) == tbl[CHOOSE i \in 1..Len(tbl) : tbl[i][2] = t][1]

\* the tasks the reschedule calls of the last call named, in call order
Rescheduled(c) == [i \in 1..Len(c.calls) |-> c.calls[i][1]]

IsInt(c, lo) == ~c.all /\ c.n >= lo

\* C1 FIFO order: whatever park, repark and cancel did before, unpark(ALL)
\* on lot l empties l and returns all its tasks, in ascending
\* sequence-number order, which is the order in which they were deposited
\* into l.
C1_FifoOrder ==
    [][(last'.op = "unpark" /\ last'.count = ALL) =>
         LET l == last'.lot
             ret == last'.ret
         IN /\ parked'[l] = <<>>
            /\ Len(ret) = Len(parked[l])
            /\ SeqSet(ret) = SeqSet(InOrder(parked[l]))
            /\ \A i, j \in 1..Len(ret) :
                 i < j => SeqNo(parked[l], ret[i]) < SeqNo(parked[l], ret[j])
            /\ ret = arrival[l]]_vars

\* three tasks parked in the order B, A, C were returned in that order by one
\* unpark(ALL), which emptied the lot
C1_Witness ==
    /\ last.op = "unpark" /\ last.count = ALL
    /\ last.ret = <<"B", "A", "C">>
    /\ parked[last.lot] = <<>>

\* C2 partial wakeup: unpark(count=k) with 0 <= k <= n on a lot of n tasks
\* reschedules exactly the k tasks with the smallest sequence numbers, in
\* that order, and returns them; the other n-k tickets stay with their
\* sequence numbers and order and their tasks are not rescheduled; k = 0
\* changes nothing.
C2_PartialWakeup ==
    [][(last'.op = "unpark" /\ IsInt(last'.count, 0)
                            /\ last'.count.n <= Len(parked[last'.lot])) =>
         LET l == last'.lot
             k == last'.count.n
             n == Len(parked[l])
             ret == last'.ret
         IN /\ ret = SubSeq(InOrder(parked[l]), 1, k)
            /\ ret = SubSeq(arrival[l], 1, k)
            /\ \A i \in 1..k : \A j \in (k + 1)..n : parked[l][i][1] < parked[l][j][1]
            /\ Rescheduled(last') = ret
            /\ parked'[l] = SubSeq(parked[l], k + 1, n)
            /\ \A a \in Lots \ {l} : parked'[a] = parked[a]
            /\ \A t \in Tasks :
                 IF t \in SeqSet(ret)
                 THEN status[t] = "parked" /\ status'[t] = "scheduled"
                      /\ resched'[t] = resched[t] + 1
                 ELSE status'[t] = status[t] /\ resched'[t] = resched[t]
                      /\ ticket'[t] = ticket[t]
            /\ (k = 0 => UNCHANGED <<counter, parked, ticket, status, resched, aborts,
                                     outcome, arrival>>)]_vars

\* unpark(count=2) on a lot of three woke two and left the third
C2_Witness ==
    /\ last.op = "unpark" /\ last.count = [all |-> FALSE, n |-> 2]
    /\ Len(last.ret) = 2
    /\ Len(parked[last.lot]) = 1

\* the tasks suspended in park whose ticket names lot l
Waiting(l) == {t \in Tasks : status[t] = "parked" /\ ticket[t].lot = l}

\* the places <<lot, position>> of the tables
Places(tbls) == UNION {{<<l, i>> : i \in 1..Len(tbls[l])} : l \in Lots}

\* how many tickets of task t the tables hold
TicketsIn(tbls, t) == Cardinality({pl \in Places(tbls) : tbls[pl[1]][pl[2]][2] = t})

Tickets(t) == TicketsIn(parked, t)

TotalSize(tbls) == Cardinality(Places(tbls))

\* C3 cancellation removes exactly one ticket: the abort hook of a parked
\* task t removes t's ticket and nothing else, every other ticket of every
\* lot keeping its place; the cancelled task is never rescheduled by a later
\* unpark and takes no wakeup slot: unpark(count) wakes
\* min(count, number of tasks still waiting) tasks, all of them waiting ones.
C3_CancelRemovesOne ==
    [][/\ (last'.op = "abort") =>
            LET t == last'.ret[1]
                l == last'.lot
            IN /\ last'.raised = "none"
               /\ \E i \in 1..Len(parked[l]) :
                    /\ parked[l][i][2] = t
                    /\ parked'[l] = SubSeq(parked[l], 1, i - 1)
                                      \o SubSeq(parked[l], i + 1, Len(parked[l]))
               /\ \A a \in Lots \ {l} : parked'[a] = parked[a]
               /\ TotalSize(parked') = TotalSize(parked) - 1
               /\ TicketsIn(parked', t) = 0
               /\ status'[t] = "aborted" /\ resched'[t] = 0
       /\ (last'.op = "unpark" /\ (last'.count.all \/ last'.count.n >= 0)) =>
            LET l == last'.lot
                live == Cardinality(Waiting(l))
                want == IF last'.count.all THEN live ELSE Min(last'.count.n, live)
            IN /\ SeqSet(last'.ret) \subseteq Waiting(l)
               /\ Len(last'.ret) = want
               /\ Rescheduled(last') = last'.ret
               /\ (last'.count.all => parked'[l] = <<>>)
       /\ \A t \in Tasks : status[t] = "aborted" => resched'[t] = 0]_vars

\* B was cancelled out of a lot that held A, B, C: A and C are left, in order
C3_Witness ==
    /\ last.op = "abort" /\ last.ret[1] = "B" /\ last.raised = "none"
    /\ InOrder(parked[last.lot]) = <<"A", "C">>
    /\ status["B"] = "aborted"

\* C4 repark orders by transfer time: after l.repark(x, count) with x another
\* lot, the tasks that were in x are still at the front of x in their order
\* and with their sequence numbers, the transferred tasks follow them, in
\* the order they had in l, with larger sequence numbers.
C4_ReparkOrder ==
    [][(last'.op = "repark" /\ last'.raised = "none" /\ last'.target # last'.lot) =>
         LET l == last'.lot
             x == last'.target
             moved == last'.ret
             old == Len(parked[x])
         IN /\ InOrder(parked'[x]) = InOrder(parked[x]) \o moved
            /\ SubSeq(parked'[x], 1, old) = parked[x]
            /\ \A i \in 1..old : \A j \in (old + 1)..Len(parked'[x]) :
                 parked'[x][i][1] < parked'[x][j][1]
            /\ moved = SubSeq(InOrder(parked[l]), 1, Len(moved))
            /\ \A i, j \in 1..Len(moved) :
                 i < j => /\ SeqNo(parked[l], moved[i]) < SeqNo(parked[l], moved[j])
                          /\ SeqNo(parked'[x], moved[i]) < SeqNo(parked'[x], moved[j])
            /\ arrival'[x] = InOrder(parked'[x])]_vars

\* A then B were in Q1 and C in Q2: after Q1.repark(Q2, ALL), Q2 holds C, A, B
C4_Witness ==
    /\ last.op = "repark" /\ last.lot = "Q1" /\ last.target = "Q2" /\ last.count = ALL
    /\ last.ret = <<"A", "B">>
    /\ InOrder(parked["Q2"]) = <<"C", "A", "B">>
    /\ parked["Q1"] = <<>>

\* C5 repark wakes nothing and conserves tickets: l.repark(x, count) with x
\* another lot and count ALL or >= 0 calls reschedule for nobody and moves
\* the m = min(count, len(l)) earliest tickets of l (all for ALL): len(l)
\* drops by m, len(x) grows by m, and the moved tasks stay suspended.
C5_ReparkConserves ==
    [][(last'.op = "repark" /\ last'.target \in Lots /\ last'.target # last'.lot
          /\ (last'.count.all \/ last'.count.n >= 0)) =>
         LET l == last'.lot
             x == last'.target
             n == Len(parked[l])
             m == IF last'.count.all THEN n ELSE Min(last'.count.n, n)
         IN /\ last'.calls = <<>>
            /\ last'.raised = "none"
            /\ UNCHANGED <<status, resched, aborts, outcome>>
            /\ last'.ret = SubSeq(InOrder(parked[l]), 1, m)
            /\ parked'[l] = SubSeq(parked[l], m + 1, n)
            /\ Len(parked'[l]) = n - m
            /\ Len(parked'[x]) = Len(parked[x]) + m
            /\ TotalSize(parked') = TotalSize(parked)
            /\ \A t \in SeqSet(last'.ret) : status'[t] = "parked" /\ TicketsIn(parked', t) = 1
                                             /\ ticket'[t].lot = x]_vars

\* repark(count=1) moved the first of at least two tasks, which stays parked
C5_Witness ==
    /\ last.op = "repark" /\ last.target \in Lots \ {last.lot}
    /\ last.count = [all |-> FALSE, n |-> 1]
    /\ Len(last.ret) = 1
    /\ Len(parked[last.lot]) >= 1
    /\ status[last.ret[1]] = "parked"
    /\ last.ret[1] \in SeqSet(InOrder(parked[last.target]))

\* C6 resume and cancel are mutually exclusive: the abort hook being run
\* only for a task suspended in park, a park call gets at most one of the
\* two, once: a rescheduled task was rescheduled once and not aborted, an
\* aborted task was aborted once and not rescheduled, and a task still
\* suspended in park (or running) has had neither.
C6_ResumeXorCancel ==
    \A t \in Tasks :
        /\ resched[t] + aborts[t] <= 1
        /\ status[t] = "scheduled" <=> resched[t] = 1
        /\ status[t] = "aborted" <=> aborts[t] = 1
        /\ status[t] \in {"parked", "running"} => resched[t] = 0 /\ aborts[t] = 0

\* one task was rescheduled by unpark while another, parked with it, was
\* cancelled, and a third is still parked
C6_Witness ==
    /\ status["A"] = "aborted" /\ aborts["A"] = 1
    /\ status["B"] = "scheduled" /\ resched["B"] = 1
    /\ status["C"] = "parked"
    /\ last.op = "unpark"

\* C7 single membership: no task is in two tables or twice in one table, and
\* a task suspended in park is in exactly one.
C7_SingleMembership ==
    \A t \in Tasks :
        /\ Tickets(t) <= 1
        /\ status[t] = "parked" => Tickets(t) = 1

\* after reparks in both directions, both lots hold tasks
C7_Witness ==
    /\ last.op = "repark" /\ last.lot = "Q2" /\ last.target = "Q1" /\ Len(last.ret) = 1
    /\ counter = MaxCounter
    /\ Len(parked["Q1"]) = 2 /\ Len(parked["Q2"]) = 1

\* C8 size/emptiness consistency: len(lot) is the number of tasks waiting in
\* the lot (never negative), bool(lot) is false iff len(lot) is 0, and
\* statistics().tasks_waiting is len(lot).
C8_SizeConsistency ==
    \A l \in Lots :
        /\ LotLen(parked, l) = Cardinality(Waiting(l))
        /\ LotLen(parked, l) = Len(arrival[l])
        /\ LotLen(parked, l) >= 0
        /\ ~LotBool(parked, l) <=> LotLen(parked, l) = 0
        /\ TasksWaiting(parked, l) = LotLen(parked, l)

\* after a cancel, with one lot empty and the other holding two tasks
C8_Witness ==
    /\ last.op = "abort" /\ last.raised = "none"
    /\ LotLen(parked, "Q1") = 2 /\ LotBool(parked, "Q1")
    /\ LotLen(parked, "Q2") = 0 /\ ~LotBool(parked, "Q2")
    /\ counter >= 4

\* C9 repark argument validation: repark with a new_lot that is not a
\* ParkingLot raises TypeError with nothing popped: all tables, the
\* tickets, the counter and the tasks are unchanged and nobody is
\* rescheduled; with a ParkingLot it does not raise.
C9_ReparkValidation ==
    [][(last'.op = "repark") =>
         IF last'.target \in Lots
         THEN last'.raised = "none"
         ELSE /\ last'.raised = "TypeError"
              /\ last'.calls = <<>> /\ last'.ret = <<>>
              /\ UNCHANGED <<counter, parked, ticket, status, resched, aborts,
                             outcome, arrival>>]_vars

\* repark(not a lot, ALL) on a lot of two tasks raised, and they are still there
C9_Witness ==
    /\ last.op = "repark" /\ last.target = NotALot /\ last.count = ALL
    /\ last.raised = "TypeError"
    /\ Len(parked[last.lot]) = 2

\* C10 oversized unpark is not an error: unpark(count=k) with k above the
\* size n raises nothing, empties the lot, reschedules all n tasks and
\* returns them in arrival order (an empty list on an empty lot).
C10_OversizedUnpark ==
    [][(last'.op = "unpark" /\ ~last'.count.all
          /\ last'.count.n > Len(parked[last'.lot])) =>
         LET l == last'.lot
             ret == last'.ret
         IN /\ last'.raised = "none"
            /\ ret = InOrder(parked[l])
            /\ ret = arrival[l]
            /\ Len(ret) = Len(parked[l])
            /\ parked'[l] = <<>>
            /\ Rescheduled(last') = ret
            /\ \A t \in SeqSet(ret) : status'[t] = "scheduled" /\ resched'[t] = 1
            /\ \A a \in Lots \ {l} : parked'[a] = parked[a]]_vars

\* unpark(count=3) on a lot of two woke both
C10_Witness ==
    /\ last.op = "unpark" /\ last.count = [all |-> FALSE, n |-> 3]
    /\ Len(last.ret) = 2
    /\ last.raised = "none"
    /\ parked[last.lot] = <<>>

\* the sequence numbers in use: the keys of all the tables
AllKeys(tbls) == UNION {Keys(tbls[l]) : l \in Lots}

\* the deposits a call made: one for park, one per ticket repark moved
Deposits(c) ==
    IF c.op = "park" THEN 1 ELSE IF c.op = "repark" THEN Len(c.ret) ELSE 0

\* C11 sequencer: the counter starts at zero and every call advances it by
\* exactly the number of deposits the call makes (one for park, one per
\* ticket repark moves, none for anything else), so it equals the number of
\* deposits so far; the numbers handed out are the counter's successive
\* values, larger than every number handed out before, and no two tickets
\* in any tables carry the same number.
C11_Sequencer ==
    /\ counter = 0
    /\ [][LET d == Deposits(last')
               fresh == AllKeys(parked') \ AllKeys(parked)
           IN /\ counter' = counter + d
              /\ fresh = counter..(counter' - 1)
              /\ \A k \in AllKeys(parked) : k < counter
              /\ Cardinality(AllKeys(parked')) = TotalSize(parked')
              /\ last'.op = "park" => ticket'[last'.ret[1]].idx = counter]_vars

\* a repark of two tickets took the counter from 3 to 5 and the moved
\* tickets carry 3 and 4 in the other lot, next to a ticket deposited later
\* than they first were
C11_Witness ==
    /\ last.op = "repark" /\ Len(last.ret) = 2 /\ last.lot # last.target
    /\ counter = 5
    /\ Keys(parked[last.target]) = {2, 3, 4}
    /\ InOrder(parked[last.target]) = <<"C", "A", "B">>

\* C12 result delivery: unpark(count, result) calls reschedule exactly once
\* for each task it popped, with the result it was passed, and for no other
\* task; the rescheduled tasks, in call order, are the returned list; no
\* other method reschedules; the result stays with the task until the
\* scheduler resumes it, and it is what park then returns.
C12_ResultDelivery ==
    [][/\ last'.op = "unpark" =>
            LET l == last'.lot
                r == last'.result
                calls == last'.calls
                popped == SeqSet(InOrder(parked[l])) \ SeqSet(InOrder(parked'[l]))
            IN /\ Len(calls) = Cardinality(popped)
               /\ \A t \in popped :
                     /\ Cardinality({i \in 1..Len(calls) : calls[i][1] = t}) = 1
                     /\ status'[t] = "scheduled" /\ outcome'[t] = r
                     /\ resched'[t] = 1
               /\ \A i \in 1..Len(calls) : calls[i][1] \in popped /\ calls[i][2] = r
               /\ Rescheduled(last') = last'.ret
               /\ \A t \in Tasks \ popped :
                     /\ status'[t] = status[t] /\ outcome'[t] = outcome[t]
                     /\ resched'[t] = resched[t]
       /\ last'.op # "unpark" => last'.calls = <<>>
       /\ \A t \in Tasks :
             (status[t] = "scheduled" /\ status'[t] = "scheduled")
                => outcome'[t] = outcome[t]
       /\ \A t \in Tasks :
             (last'.op = "resume" /\ last'.ret[1] = t /\ status[t] = "scheduled")
                => (last'.ret[2] = outcome[t] /\ outcome[t] \in Results)]_vars

\* unpark(result=Value(1)) woke B and A with Value(1) while C, woken before
\* with the default result, still waits to resume with Value(None)
C12_Witness ==
    /\ last.op = "unpark" /\ last.result = "Value(1)"
    /\ last.calls = <<<<"B", "Value(1)">>, <<"A", "Value(1)">>>>
    /\ last.ret = <<"B", "A">>
    /\ outcome["A"] = "Value(1)" /\ outcome["B"] = "Value(1)"
    /\ status["C"] = "scheduled" /\ outcome["C"] = DefaultResult

\* C13 table equals parked set: in every state between calls a task has a
\* ticket in some table exactly if it is suspended in park and has been
\* neither rescheduled nor cancelled; that ticket is in the table and under
\* the key its abort closure will use, so a reparked task is in no state
\* without a table and the closure's delete never misses its key.
C13_TableEqualsParked ==
    /\ \A t \in Tasks :
          /\ (TicketsIn(parked, t) > 0) <=> (status[t] = "parked")
          /\ status[t] = "parked" =>
                /\ resched[t] = 0 /\ aborts[t] = 0
                /\ ticket[t].lot \in Lots
                /\ \E i \in 1..Len(parked[ticket[t].lot]) :
                      parked[ticket[t].lot][i] = <<ticket[t].idx, t>>
    /\ last.op = "abort" => last.raised = "none"

\* after a repark moved A and B, both are suspended with their tickets in
\* the target lot, C was cancelled and is in no table
C13_Witness ==
    /\ last.op = "repark" /\ last.ret = <<"A", "B">> /\ last.lot # last.target
    /\ status["A"] = "parked" /\ status["B"] = "parked"
    /\ InOrder(parked[last.target]) = <<"A", "B">>
    /\ status["C"] = "aborted" /\ TicketsIn(parked, "C") = 0

\* C14 cancellation follows the ticket across repark: when every task parks
\* in Q1 and repark moves tickets between the lots any number of times, the
\* abort closure of a task removes the task's ticket from the lot that holds
\* it now, under the sequence number it has now, leaves the other lot and
\* every other ticket as they were, and returns Abort.SUCCEEDED.
C14_CancelFollowsTicket ==
    [][last'.op = "abort" =>
         LET t == last'.ret[1]
             holder == CHOOSE l \in Lots : t \in SeqSet(InOrder(parked[l]))
             key == SeqNo(parked[holder], t)
         IN /\ TicketsIn(parked, t) = 1
            /\ last'.lot = holder
            /\ ticket[t] = [idx |-> key, lot |-> holder]
            /\ parked'[holder] = Del(parked[holder], key)
            /\ Len(parked'[holder]) = Len(parked[holder]) - 1
            /\ \A l \in Lots \ {holder} : parked'[l] = parked[l]
            /\ \A u \in Tasks \ {t} : ticket'[u] = ticket[u] /\ status'[u] = status[u]
            /\ last'.ret = <<t, "Abort.SUCCEEDED">> /\ last'.raised = "none"
            /\ status'[t] = "aborted"
            /\ counter' = counter]_vars

\* A, parked in Q1 and moved to Q2 together with C, was cancelled out of Q2,
\* where C stays with its number, while B stays in Q1
C14_Witness ==
    /\ last.op = "abort" /\ last.lot = "Q2"
    /\ last.ret = <<"A", "Abort.SUCCEEDED">>
    /\ parked["Q1"] = <<<<2, "B">>>>
    /\ parked["Q2"] = <<<<4, "C">>>>
    /\ counter = 5

\* the place of task t in the table, counted from the front
Pos(tbl, t) == CHOOSE i \in 1..Len(tbl) : tbl[i][2] = t

\* the tasks whose tickets are ahead of t's
Ahead(tbl, t) == {tbl[i][2] : i \in 1..(Pos(tbl, t) - 1)}

\* an unpark call on lot l that asks for at least one task
UnparkSome(l) ==
    \E c \in UnparkCounts : (c.all \/ c.n >= 1) /\ Unpark(l, c, DefaultResult)

\* task t is suspended in park with its ticket in lot l
ParkedIn(t, l) == status[t] = "parked" /\ ticket[t].lot = l

\* task t was rescheduled or cancelled and has not resumed yet, or the last
\* call was a repark that moved its ticket
WokenOrMoved(t) ==
    \/ status[t] \in {"scheduled", "aborted"}
    \/ last.op = "repark" /\ t \in SeqSet(last.ret)

\* C15 no starvation: while a ticket stays in lot l no ticket gets ahead of
\* it (tasks that park or are reparked into l later stand behind it); an
\* unpark on l that pops j tickets takes them from the front, so a task at
\* place i is rescheduled by it if i <= j and moves up to place i - j
\* otherwise, and unpark(count >= 1) pops min(count, size) tickets.  Hence,
\* if unpark asking for at least one task is called on l again and again,
\* every task parked in l is eventually rescheduled, cancelled or reparked.
C15_NoStarvation ==
    /\ [][/\ \A l \in Lots : \A t \in SeqSet(InOrder(parked[l])) :
               ((t \in SeqSet(InOrder(parked'[l])) /\ ticket'[t] = ticket[t])
                  => (Ahead(parked'[l], t) \subseteq Ahead(parked[l], t)))
          /\ (last'.op = "unpark") =>
               (LET q == last'.lot
                    n == Len(parked[q])
                    j == n - Len(parked'[q])
                IN /\ last'.count.all => j = n
                   /\ IsInt(last'.count, 1) => j = Min(last'.count.n, n)
                   /\ \A i \in 1..n :
                         IF i <= j
                         THEN /\ status'[parked[q][i][2]] = "scheduled"
                              /\ last'.ret[i] = parked[q][i][2]
                         ELSE parked'[q][i - j] = parked[q][i])]_vars
    /\ \A l \in Lots : \A t \in Tasks :
          WF_vars(UnparkSome(l)) => (ParkedIn(t, l) ~> WokenOrMoved(t))

\* C stood third in the lot behind A and B; an unpark(count=1) and then an
\* unpark(count=2) have popped three tickets, the second call woke B and C
C15_Witness ==
    /\ last.op = "unpark" /\ last.count = [all |-> FALSE, n |-> 2]
    /\ last.ret = <<"B", "C">>
    /\ status["A"] = "scheduled" /\ status["C"] = "scheduled"
    /\ parked[last.lot] = <<>>
    /\ counter = 3

\* the lots whose tables a step changes
Changed == {l \in Lots : parked'[l] # parked[l]}

C17_SelfRepark ==
    [][(/\ last'.op = "repark" /\ last'.target = last'.lot
        /\ (last'.count.all \/ last'.count.n >= 0)) =>
         LET l == last'.lot
             old == InOrder(parked[l])
             n == Len(old)
             m == IF last'.count.all THEN n ELSE Min(last'.count.n, n)
         IN /\ last'.raised = "none" /\ last'.calls = <<>>
            /\ last'.ret = SubSeq(old, 1, m)
            /\ counter' = counter + m
            /\ Len(parked'[l]) = n
            /\ InOrder(parked'[l]) = SubSeq(old, m + 1, n) \o SubSeq(old, 1, m)
            /\ \A i \in 1..(n - m) : parked'[l][i] = parked[l][m + i]
            /\ \A i \in 1..m : parked'[l][n - m + i][1] = counter + i - 1
            /\ last'.count.all =>
                  /\ InOrder(parked'[l]) = old
                  /\ \A k \in Keys(parked'[l]) : k >= counter
            /\ \A a \in Lots \ {l} : parked'[a] = parked[a]
            /\ status' = status /\ resched' = resched /\ outcome' = outcome
            /\ \A t \in SeqSet(old) : ticket'[t].lot = l]_vars

\* a lot of A, B, C reparked onto itself with count=2: A and B now stand
\* behind C with the numbers 3 and 4, C keeps 2, nobody was woken
C17_Witness ==
    /\ last.op = "repark" /\ last.target = last.lot
    /\ last.count = [all |-> FALSE, n |-> 2]
    /\ last.ret = <<"A", "B">>
    /\ parked[last.lot] = <<<<2, "C">>, <<3, "A">>, <<4, "B">>>>
    /\ \A t \in Tasks : status[t] = "parked"

\* C18 negative count: unpark(count=k) and repark(lot, count=k) with an
\* integer k < 0 pop no ticket, reschedule no task, leave every table, every
\* ticket and the counter as they were and raise nothing; unpark returns the
\* empty list.
C18_NegativeCount ==
    [][(/\ last'.op \in {"unpark", "repark"}
        /\ ~last'.count.all /\ last'.count.n < 0
        /\ last'.op = "repark" => last'.target \in Lots) =>
         /\ last'.ret = <<>> /\ last'.calls = <<>> /\ last'.raised = "none"
         /\ parked' = parked /\ counter' = counter /\ ticket' = ticket
         /\ status' = status /\ resched' = resched /\ outcome' = outcome
         /\ arrival' = arrival]_vars

\* unpark(count=-1) on a lot of three returned the empty list, the three are
\* still parked there
C18_Witness ==
    /\ last.op = "unpark" /\ last.count = [all |-> FALSE, n |-> -1]
    /\ last.ret = <<>> /\ last.raised = "none"
    /\ Len(parked[last.lot]) = 3
    /\ \A t \in Tasks : status[t] = "parked"

\* every entry idx -> ticket of every table: the ticket's stored sequence
\* number is idx and its stored owner is the lot of the table
KeyConsistent(tbls, tks) ==
    \A l \in Lots : \A i \in 1..Len(tbls[l]) :
       tks[tbls[l][i][2]] = [idx |-> tbls[l][i][1], lot |-> l]

\* C19 ticket/key consistency: in every state, for every entry idx -> ticket
\* in the table of lot l, the ticket stores idx and l; and a ticket's stored
\* pair is written only by a deposit, that is by park for the caller's ticket
\* and by repark for the tickets it moves, in the step that puts the ticket
\* into that lot's table under that number, a fresh one.  (When a task is
\* rescheduled or cancelled the scheduler lets go of the closure that holds
\* the ticket: the ticket is gone, not rewritten.)
C19_TicketKey ==
    /\ KeyConsistent(parked, ticket)
    /\ [][/\ KeyConsistent(parked', ticket')
          /\ \A t \in Tasks : ticket'[t] # ticket[t] =>
                \/ /\ ticket'[t] = NoTicket
                   /\ status'[t] \in {"scheduled", "aborted"}
                \/ /\ last'.op \in {"park", "repark"}
                   /\ t \in SeqSet(last'.ret)
                   /\ ticket'[t].lot
                         = (IF last'.op = "park" THEN last'.lot ELSE last'.target)
                   /\ ticket'[t].idx >= counter /\ ticket'[t].idx < counter'
                   /\ <<ticket'[t].idx, t>> \in SeqSet(parked'[ticket'[t].lot])
                   /\ ticket'[t].idx \notin AllKeys(parked)]_vars

\* after a repark of B and C their tickets name the target lot and the
\* numbers 3 and 4 they are filed under; A's ticket names the source and 0
C19_Witness ==
    /\ last.op = "repark" /\ last.lot = "Q1" /\ last.target = "Q2"
    /\ parked["Q2"] = <<<<3, "B">>, <<4, "C">>>>
    /\ ticket["B"] = [idx |-> 3, lot |-> "Q2"]
    /\ ticket["C"] = [idx |-> 4, lot |-> "Q2"]
    /\ ticket["A"] = [idx |-> 0, lot |-> "Q1"]

TypeOK ==
    /\ counter \in 0..MaxCounter
    /\ \A l \in Lots : Keys(parked[l]) \subseteq 0..(counter - 1)
    /\ \A l \in Lots : SeqSet(InOrder(parked[l])) \subseteq Tasks

====
